---- MODULE Spec2Model ----
(***************************************************************************)
(* page-hunter: the validated pagination model (Page, Book), the in-memory *)
(* pagination functions (paginate_records, bind_records), the serde        *)
(* encoding of a Page and of a Book, and the relational pagination over    *)
(* sqlx (paginate_rows).                                                   *)
(*                                                                         *)
(* The library is stateless: every operation is a function of its          *)
(* arguments.  A behaviour of the model is one caller: the initial state   *)
(* draws the caller's arguments (or an external payload to decode), and    *)
(* each action applies one operation of the library to them and records    *)
(* what it returned.  paginate_rows alone has steps of its own: it awaits  *)
(* the connection, the count query and the fetch query one after the       *)
(* other, and the table may be written between them.                       *)
(*                                                                         *)
(* usize is UsizeBits wide.  An arithmetic overflow panics when the crate  *)
(* is built with overflow checks (the debug profile) and wraps otherwise   *)
(* (the release profile); every operation takes the build's choice as its  *)
(* last parameter `oc`, and the actions draw it from BOOLEAN.              *)
(***************************************************************************)
EXTENDS Integers, Sequences, FiniteSets, TLC

VARIABLES
    items,      \* argument `items` of Page::new
    page,       \* argument `page` of Page::new, paginate_records
    size,       \* argument `size` of Page::new, paginate_records, bind_records
    total,      \* argument `total` of Page::new
    records,    \* argument `records` of paginate_records, bind_records
    wire,       \* Option: the encoded Page (an external payload, or serialize's output)
    pg,         \* Option: the Page the caller built (Page::new, default, paginate_records)
    copy,       \* Option: the Page obtained from another (clone) or decoded from `wire`
    book,       \* Option: the Book the caller built (bind_records, Book::new, default)
    res,        \* what the last fallible call returned: Ok, Err(e) or a panic
    op,         \* the last operation applied
    given,      \* argument `sheets` of Book::new
    bwire,      \* Option: the encoded Book (an external payload, or serialize's output)
    bcopy,      \* Option: the Book decoded from `bwire`
    table,      \* the rows the paginated query selects, in the query's order
    pc,         \* where paginate_rows is: the step it is about to make
    sq_total,   \* Option: paginate_rows' local `total`
    sq_rows,    \* Option: paginate_rows' local `rows`
    sq_items,   \* Option: paginate_rows' local `items`
    modified,   \* the table was written after paginate_rows acquired the connection
    trace,      \* the steps paginate_rows has made, in order
    calls       \* the calls of paginate_rows that returned: their steps and count

bookVars == <<given, bwire, bcopy>>

sqlVars == <<table, pc, sq_total, sq_rows, sq_items, modified, trace, calls>>

vars == <<items, page, size, total, records, wire, pg, copy, book, res, op,
          given, bwire, bcopy,
          table, pc, sq_total, sq_rows, sq_items, modified, trace, calls>>

----------------------------------------------------------------------------
(* Bounds of the model *)

UsizeBits == 4
MaxN == 3
MaxLen == 3
MaxRecords == 4
MaxSheets == 2
MaxSheetN == 2
MaxRows == 3
MaxCalls == 2

UsizeMax == 2 ^ UsizeBits - 1
Elem == {1, 2}

SeqsUpTo(S, n) == UNION {[1..k -> S] : k \in 0..n}
Items == SeqsUpTo(Elem, MaxLen)
\* The records of the crate's own tests: 1, 2, ..., 10.
FixtureLen == 10
Fixture == [k \in 1..FixtureLen |-> k]
Records == SeqsUpTo(Elem, MaxRecords) \cup {Fixture}
Small == 0..MaxN
Usize == 0..UsizeMax

----------------------------------------------------------------------------
(* Option<T>, PaginationResult<T>, PaginationError *)

None == <<>>
Some(x) == <<x>>

is_some(o) == o # None
unwrap(o) == o[1]

NoCall == [tag |-> "None", err |-> None]
Ok == [tag |-> "Ok", err |-> None]
Panic == [tag |-> "Panic", err |-> None]

InvalidValue(detail) == [kind |-> "InvalidValue", detail |-> detail]
SQLx(e) == [kind |-> "SQLx", detail |-> e]
Err(e) == [tag |-> "Err", err |-> Some(e)]

is_ok(r) == r.tag = "Ok"
is_err(r) == r.tag = "Err"

----------------------------------------------------------------------------
(* usize arithmetic *)

Overflows(x) == x < 0 \/ x > UsizeMax
Wrap(x) == x % (UsizeMax + 1)

max(a, b) == IF a >= b THEN a ELSE b

\* Mutant: the quotient is not rounded up.
div_floor(a, b) == a \div b

div_ceil(a, b) ==
    LET d == a \div b
        r == a % b
    IN  IF r > 0 THEN d + 1 ELSE d

----------------------------------------------------------------------------
(* Page *)

NewPage(i, p, s, t, ps, prev, next) ==
    [items |-> i, page |-> p, size |-> s, total |-> t, pages |-> ps,
     previous_page |-> prev, next_page |-> next]

\* `self.get_pages() - 1` in usize.
last_page(self) == Wrap(self.pages - 1)

\* pages must be equal to total divided by size rounded up; 1 when size is 0.
check_total_pages(self) ==
    LET expected_pages ==
            IF self.size = 0 THEN 1 ELSE max(div_ceil(self.total, self.size), 1)
    IN  IF expected_pages # self.pages
        THEN Err(InvalidValue(<<"Total pages error: expected, found",
                                expected_pages, self.pages>>))
        ELSE Ok

\* Mutant: the page index is compared with pages, not pages - 1.
check_page_index_off_by_one(self, oc) ==
    IF oc /\ Overflows(self.pages - 1)
    THEN Panic
    ELSE IF self.page > self.pages
    THEN Err(InvalidValue(<<"Page index exceeds total pages", self.page, self.pages>>))
    ELSE Ok

\* page must be less than or equal to pages - 1.
check_page_index(self, oc) ==
    IF oc /\ Overflows(self.pages - 1)
    THEN Panic
    ELSE IF self.page > last_page(self)
    THEN Err(InvalidValue(<<"Page index exceeds total pages", self.page, self.pages>>))
    ELSE Ok

\* Mutant: the items of a page before the last are not counted.
check_items_length_skipped(self) == Ok

\* if page is less than pages - 1, items length must be equal to size.
check_items_length(self) ==
    LET items_length == Len(self.items)
    IN  IF self.page < last_page(self) /\ items_length # self.size
        THEN Err(InvalidValue(<<"Items length is not equal to page size for an intermediate page",
                                items_length, self.size, self.page>>))
        ELSE Ok

\* Mutant: a size of 0 is taken as "no limit" and the total is not compared.
check_total_elements_unlimited(self, oc) ==
    LET items_length == Len(self.items)
        prod == last_page(self) * self.size
        sum == Wrap(prod) + items_length
    IN  IF self.page # last_page(self) \/ self.size = 0
        THEN Ok
        ELSE IF oc /\ (Overflows(prod) \/ Overflows(sum))
        THEN Panic
        ELSE IF self.total # Wrap(sum)
        THEN Err(InvalidValue(<<"Total elements error: expected, found",
                                Wrap(sum), self.total>>))
        ELSE Ok

\* Mutant: the total of the last page is not compared.
check_total_elements_skipped(self, oc) == Ok

\* if page is equal to pages - 1, total must be (pages - 1) * size + items length.
check_total_elements(self, oc) ==
    LET items_length == Len(self.items)
        prod == last_page(self) * self.size
        sum == Wrap(prod) + items_length
    IN  IF self.page # last_page(self)
        THEN Ok
        ELSE IF oc /\ (Overflows(prod) \/ Overflows(sum))
        THEN Panic
        ELSE IF self.total # Wrap(sum)
        THEN Err(InvalidValue(<<"Total elements error: expected, found",
                                Wrap(sum), self.total>>))
        ELSE Ok

\* previous_page must be page - 1 if page is greater than 0, otherwise None.
check_previous_page(self) ==
    LET expected_previous_page ==
            IF self.page = 0 THEN None ELSE Some(self.page - 1)
    IN  IF expected_previous_page # self.previous_page
        THEN Err(InvalidValue(<<"Previous page index error: expected, found",
                                expected_previous_page, self.previous_page>>))
        ELSE Ok

\* Mutant: next_page is not checked.
check_next_page_skipped(self, oc) == Ok

\* next_page must be page + 1 if page is less than pages - 1, otherwise None.
check_next_page(self, oc) ==
    LET succ == self.page + 1
        expected_next_page ==
            IF self.page = last_page(self) THEN None ELSE Some(Wrap(succ))
    IN  IF self.page # last_page(self) /\ oc /\ Overflows(succ)
        THEN Panic
        ELSE IF expected_next_page # self.next_page
        THEN Err(InvalidValue(<<"Next page index error: expected, found",
                                expected_next_page, self.next_page>>))
        ELSE Ok

\* Mutant: the neighbours are checked before the items and the total.
verify_fields_neighbours_first(self, oc) ==
    LET r1 == check_total_pages(self)
        r2 == check_page_index(self, oc)
        r3 == check_items_length(self)
        r4 == check_total_elements(self, oc)
        r5 == check_previous_page(self)
        r6 == check_next_page(self, oc)
    IN  IF ~is_ok(r1) THEN r1
        ELSE IF ~is_ok(r2) THEN r2
        ELSE IF ~is_ok(r5) THEN r5
        ELSE IF ~is_ok(r6) THEN r6
        ELSE IF ~is_ok(r3) THEN r3
        ELSE r4

\* Mutant: the page index is checked before pages.
verify_fields_index_first(self, oc) ==
    LET r1 == check_total_pages(self)
        r2 == check_page_index(self, oc)
        r3 == check_items_length(self)
        r4 == check_total_elements(self, oc)
        r5 == check_previous_page(self)
        r6 == check_next_page(self, oc)
    IN  IF ~is_ok(r2) THEN r2
        ELSE IF ~is_ok(r1) THEN r1
        ELSE IF ~is_ok(r3) THEN r3
        ELSE IF ~is_ok(r4) THEN r4
        ELSE IF ~is_ok(r5) THEN r5
        ELSE r6

\* The six checks in the order of the source; the first that fails returns.
verify_fields(self, oc) ==
    LET r1 == check_total_pages(self)
        r2 == check_page_index(self, oc)
        r3 == check_items_length(self)
        r4 == check_total_elements(self, oc)
        r5 == check_previous_page(self)
        r6 == check_next_page(self, oc)
    IN  IF ~is_ok(r1) THEN r1
        ELSE IF ~is_ok(r2) THEN r2
        ELSE IF ~is_ok(r3) THEN r3
        ELSE IF ~is_ok(r4) THEN r4
        ELSE IF ~is_ok(r5) THEN r5
        ELSE r6

\* Mutant: the pages Page::new derives are not rounded up.
Page_new_pages_floor(s, t) == IF s = 0 THEN 1 ELSE max(t \div s, 1)

\* The candidate Page::new assembles before it runs the field check.
Page_new_pages(s, t) == IF s = 0 THEN 1 ELSE max(div_ceil(t, s), 1)

Page_new_candidate(i, p, s, t) ==
    LET pages == Page_new_pages(s, t)
    IN  NewPage(i, p, s, t, pages,
                IF p = 0 THEN None ELSE Some(p - 1),
                IF p = pages - 1 THEN None ELSE Some(Wrap(p + 1)))

\* Page::new: [res |-> the result, val |-> Some(page) on Ok].
Page_new(i, p, s, t, oc) ==
    LET pages == Page_new_pages(s, t)
        cand == Page_new_candidate(i, p, s, t)
    IN  IF p # pages - 1 /\ oc /\ Overflows(p + 1)
        THEN [res |-> Panic, val |-> None]
        ELSE LET v == verify_fields(cand, oc)
             IN  IF is_ok(v) THEN [res |-> Ok, val |-> Some(cand)]
                 ELSE [res |-> v, val |-> None]

Page_clone(self) ==
    NewPage(self.items, self.page, self.size, self.total, self.pages,
            self.previous_page, self.next_page)

\* Mutant: every numeric field of the default Page is zero.
Page_default_all_zero == NewPage(<<>>, 0, 0, 0, 0, None, None)

Page_default == NewPage(<<>>, 0, 0, 0, 1, None, None)

----------------------------------------------------------------------------
(* Book *)

\* Mutant: the sheets are kept in the opposite order.
Book_new_reversed(sheets) ==
    [sheets |-> [k \in 1..Len(sheets) |-> sheets[Len(sheets) + 1 - k]]]

Book_new(sheets) == [sheets |-> sheets]

Book_default == [sheets |-> <<>>]

----------------------------------------------------------------------------
(* In-memory pagination *)

\* Iterator::skip(n) and Iterator::take(n) on a finite sequence.
skip(s, n) == IF n >= Len(s) THEN <<>> ELSE SubSeq(s, n + 1, Len(s))

\* Mutant: take(0) takes everything.
take_all_at_zero(s, n) == IF n = 0 \/ n >= Len(s) THEN s ELSE SubSeq(s, 1, n)

take(s, n) == IF n >= Len(s) THEN s ELSE SubSeq(s, 1, n)

\* Mutant: the records skipped are `page`, not `size * page`.
paginate_records_skip_page(recs, p, s, oc) ==
    LET offset == s * p
        selected_records == take(skip(recs, p), s)
        count == Len(recs)
    IN  IF oc /\ Overflows(offset)
        THEN [res |-> Panic, val |-> None]
        ELSE Page_new(selected_records, p, s, count, oc)

paginate_records(recs, p, s, oc) ==
    LET offset == s * p
        selected_records == take(skip(recs, Wrap(offset)), s)
        count == Len(recs)
    IN  IF oc /\ Overflows(offset)
        THEN [res |-> Panic, val |-> None]
        ELSE Page_new(selected_records, p, s, count, oc)

\* Mutant: the number of sheets is not rounded up.
bind_records_pages_floor(s, count) == IF s = 0 THEN 0 ELSE max(count \div s, 1)

\* Mutant: one sheet more than the records fill is asked for.
bind_records_pages_one_more(s, count) ==
    IF s = 0 THEN 0 ELSE max(div_ceil(count, s), 1) + 1

\* Mutant: size 0 asks for one sheet.
bind_records_pages_one_at_zero(s, count) ==
    IF s = 0 THEN 1 ELSE max(div_ceil(count, s), 1)

\* Mutant: no sheet is asked for when there is no record.
bind_records_pages_no_least(s, count) == IF s = 0 THEN 0 ELSE div_ceil(count, s)

bind_records_pages(s, count) == IF s = 0 THEN 0 ELSE max(div_ceil(count, s), 1)

\* Mutant: every sheet takes its items from the start of the records.
bind_records_sheet_no_skip(recs, p, s, oc) ==
    LET offset == s * p
    IN  IF oc /\ Overflows(offset)
        THEN [res |-> Panic, val |-> None]
        ELSE Page_new(take(recs, s), p, s, Len(recs), oc)

\* The Page::new call bind_records makes for index p.
bind_records_sheet(recs, p, s, oc) ==
    LET offset == s * p
    IN  IF oc /\ Overflows(offset)
        THEN [res |-> Panic, val |-> None]
        ELSE Page_new(take(skip(recs, Wrap(offset)), s), p, s, Len(recs), oc)

\* Mutant: the sheets are collected from the last index to the first.
bind_records_backwards(recs, s, oc) ==
    LET count == Len(recs)
        pages == bind_records_pages(s, count)
        made == [i \in 1..pages |-> bind_records_sheet(recs, pages - i, s, oc)]
        bad == {i \in 1..pages : ~is_ok(made[i].res)}
    IN  IF bad # {}
        THEN LET first == CHOOSE i \in bad : \A j \in bad : i <= j
             IN  [res |-> made[first].res, val |-> None]
        ELSE [res |-> Ok,
              val |-> Some([sheets |-> [i \in 1..pages |-> unwrap(made[i].val)]])]

\* bind_records: the sheets are built in index order and collecting them stops
\* at the first call that does not return Ok.
bind_records(recs, s, oc) ==
    LET count == Len(recs)
        pages == bind_records_pages(s, count)
        made == [i \in 1..pages |-> bind_records_sheet(recs, i - 1, s, oc)]
        bad == {i \in 1..pages : ~is_ok(made[i].res)}
    IN  IF bad # {}
        THEN LET first == CHOOSE i \in bad : \A j \in bad : i <= j
             IN  [res |-> made[first].res, val |-> None]
        ELSE [res |-> Ok,
              val |-> Some(Book_new([i \in 1..pages |-> unwrap(made[i].val)]))]

----------------------------------------------------------------------------
(* Relational pagination over sqlx *)

\* sqlx::Error: what the pool, the database and FromRow report.
PoolTimedOut == <<"pool timed out while waiting for an open connection">>
Database == <<"error returned from database">>
ColumnNotFound == <<"no column found for name">>

\* impl From<sqlx::Error> for PaginationError, which `?` applies.
From_SqlxError(value) == SQLx(value)

\* A row of the result: the record FromRow makes of it, or no record when a
\* column the record needs is missing.
NewRow(v, d) == [val |-> v, decodes |-> d]

from_row(r) ==
    IF r.decodes THEN [res |-> Ok, val |-> Some(r.val)]
    ELSE [res |-> Err(ColumnNotFound), val |-> None]

\* Mutant: the count is one more than the rows in the table.
get_total_rows_one_more(tbl, fails) ==
    IF fails
    THEN [res |-> Err(From_SqlxError(Database)), val |-> None]
    ELSE [res |-> Ok, val |-> Some(Wrap(Len(tbl) + 1))]

\* SELECT count(*) from (query): the number of rows now in the table.
get_total_rows(tbl, fails) ==
    IF fails
    THEN [res |-> Err(From_SqlxError(Database)), val |-> None]
    ELSE [res |-> Ok, val |-> Some(Wrap(Len(tbl)))]

\* Mutant: the rows are fetched from OFFSET page.
get_page_rows_offset_page(tbl, p, s, fails, oc) ==
    LET offset == s * p
    IN  IF oc /\ Overflows(offset) THEN [res |-> Panic, val |-> None]
        ELSE IF fails THEN [res |-> Err(From_SqlxError(Database)), val |-> None]
        ELSE [res |-> Ok, val |-> Some(take(skip(tbl, p), s))]

\* query LIMIT size OFFSET size * page: the text is formatted, then executed.
get_page_rows(tbl, p, s, fails, oc) ==
    LET offset == s * p
    IN  IF oc /\ Overflows(offset) THEN [res |-> Panic, val |-> None]
        ELSE IF fails THEN [res |-> Err(From_SqlxError(Database)), val |-> None]
        ELSE [res |-> Ok, val |-> Some(take(skip(tbl, Wrap(offset)), s))]

\* Mutant: a row that does not decode is reported as an invalid value.
parse_rows_invalid_value(rows) ==
    LET made == [k \in 1..Len(rows) |-> from_row(rows[k])]
        bad == {k \in 1..Len(rows) : ~is_ok(made[k].res)}
    IN  IF bad # {}
        THEN LET first == CHOOSE k \in bad : \A j \in bad : k <= j
             IN  [res |-> Err(InvalidValue(unwrap(made[first].res.err))), val |-> None]
        ELSE [res |-> Ok, val |-> Some([k \in 1..Len(rows) |-> unwrap(made[k].val)])]

\* The rows are decoded in order; collecting stops at the first that fails,
\* and its sqlx::Error is wrapped in ErrorKind::SQLx.
parse_rows(rows) ==
    LET made == [k \in 1..Len(rows) |-> from_row(rows[k])]
        bad == {k \in 1..Len(rows) : ~is_ok(made[k].res)}
    IN  IF bad # {}
        THEN LET first == CHOOSE k \in bad : \A j \in bad : k <= j
             IN  [res |-> Err(SQLx(unwrap(made[first].res.err))), val |-> None]
        ELSE [res |-> Ok, val |-> Some([k \in 1..Len(rows) |-> unwrap(made[k].val)])]

----------------------------------------------------------------------------
(* serde: a Page as a JSON object, and back *)

JNull == [t |-> "null", n |-> 0, a |-> <<>>]
JNum(n) == [t |-> "number", n |-> n, a |-> <<>>]
JArr(s) == [t |-> "array", n |-> 0, a |-> s]

\* Mutant: an absent index is written as 0.
option_to_json_zero(o) == IF o = None THEN JNum(0) ELSE JNum(unwrap(o))

option_to_json(o) == IF o = None THEN JNull ELSE JNum(unwrap(o))
option_from_json(j) == IF j.t = "null" THEN None ELSE Some(j.n)

items_to_json(s) == JArr([k \in 1..Len(s) |-> JNum(s[k])])
items_from_json(j) == [k \in 1..Len(j.a) |-> j.a[k].n]

Page_serialize(self) ==
    [items |-> items_to_json(self.items),
     page |-> JNum(self.page),
     size |-> JNum(self.size),
     total |-> JNum(self.total),
     pages |-> JNum(self.pages),
     previous_page |-> option_to_json(self.previous_page),
     next_page |-> option_to_json(self.next_page)]

\* The PageModel the derived Deserialize fills from the payload.
PageModel(w) ==
    NewPage(items_from_json(w.items), w.page.n, w.size.n, w.total.n, w.pages.n,
            option_from_json(w.previous_page), option_from_json(w.next_page))

\* PaginationError's Display, and serde's Error::custom of it.
Display(e) == <<"INVALID VALUE ERROR-">> \o e.detail
DeError_custom(e) == [kind |-> "serde::de::Error::custom", detail |-> Display(e)]

\* Mutant: the decoded fields are not verified.
Page_deserialize_unchecked(w, oc) == [res |-> Ok, val |-> Some(PageModel(w))]

\* Mutant: the decoded items, page, size and total go through Page::new, which
\* recomputes pages, previous_page and next_page.
Page_deserialize_recomputed(w, oc) ==
    LET m == PageModel(w)
        r == Page_new(m.items, m.page, m.size, m.total, oc)
    IN  IF is_err(r.res)
        THEN [res |-> Err(DeError_custom(unwrap(r.res.err))), val |-> None]
        ELSE r

Page_deserialize(w, oc) ==
    LET cand == PageModel(w)
        v == verify_fields(cand, oc)
    IN  IF is_ok(v) THEN [res |-> Ok, val |-> Some(cand)]
        ELSE IF is_err(v) THEN [res |-> Err(DeError_custom(unwrap(v.err))), val |-> None]
        ELSE [res |-> Panic, val |-> None]

----------------------------------------------------------------------------
(* serde: a Book as a JSON object with the one field `sheets`, and back *)

Book_serialize(self) ==
    [sheets |-> [k \in 1..Len(self.sheets) |-> Page_serialize(self.sheets[k])]]

\* Mutant: only the first sheet goes through Page's Deserialize.
Book_deserialize_first_only(w, oc) ==
    LET n == Len(w.sheets)
        made == [k \in 1..n |-> IF k = 1 THEN Page_deserialize(w.sheets[k], oc)
                                ELSE [res |-> Ok, val |-> Some(PageModel(w.sheets[k]))]]
        bad == {k \in 1..n : ~is_ok(made[k].res)}
    IN  IF bad # {}
        THEN [res |-> made[1].res, val |-> None]
        ELSE [res |-> Ok, val |-> Some([sheets |-> [k \in 1..n |-> unwrap(made[k].val)]])]

\* The derived Deserialize of BookModel decodes the elements of `sheets` in
\* order, each with Page's Deserialize, and stops at the first that fails; the
\* Book is the decoded sheets as they are.
Book_deserialize(w, oc) ==
    LET n == Len(w.sheets)
        made == [k \in 1..n |-> Page_deserialize(w.sheets[k], oc)]
        bad == {k \in 1..n : ~is_ok(made[k].res)}
    IN  IF bad # {}
        THEN LET first == CHOOSE k \in bad : \A j \in bad : k <= j
             IN  [res |-> made[first].res, val |-> None]
        ELSE [res |-> Ok, val |-> Some([sheets |-> [k \in 1..n |-> unwrap(made[k].val)]])]

----------------------------------------------------------------------------
(* Initial states: what the caller passes in *)

\* The payloads drawn: well-typed objects with every field free.  The field
\* check reads only the length of items, so the items drawn differ in length.
JOptions == {JNull} \cup {JNum(n) : n \in Small}

Payloads ==
    [items : {items_to_json(s) : s \in SeqsUpTo({1}, MaxLen)},
     page : {JNum(n) : n \in Small},
     size : {JNum(n) : n \in Small},
     total : {JNum(n) : n \in Small},
     pages : {JNum(n) : n \in Small},
     previous_page : JOptions,
     next_page : JOptions]

NothingYet ==
    /\ pg = None /\ copy = None /\ book = None /\ bcopy = None
    /\ res = NoCall
    /\ op = "init"
    /\ sq_total = None /\ sq_rows = None /\ sq_items = None
    /\ modified = FALSE /\ trace = <<>> /\ calls = <<>>

\* No query to paginate.
NoDatabase == table = <<>> /\ pc = "idle"

NoBookArgs == given = <<>> /\ bwire = None

\* The caller is about to build a Page from items, page, size and total.
InitArgs ==
    /\ items \in Items
    /\ page \in Small /\ size \in Small /\ total \in Small
    /\ records = <<>>
    /\ wire = None
    /\ NoBookArgs

\* The caller is about to paginate a record collection.
InitRecords ==
    /\ records \in Records
    /\ page \in Small /\ size \in Small
    /\ items = <<>> /\ total = 0
    /\ wire = None
    /\ NoBookArgs

\* The caller received an encoded Page from outside.
InitWire ==
    /\ wire \in {Some(w) : w \in Payloads}
    /\ items = <<>> /\ page = 0 /\ size = 0 /\ total = 0
    /\ records = <<>>
    /\ NoBookArgs

Init == (InitArgs \/ InitRecords \/ InitWire) /\ NoDatabase /\ NothingYet

\* The same caller with page and size anywhere in usize.
Edge == {0, 1, MaxN, UsizeMax}

InitMachine ==
    /\ page \in Usize /\ size \in Usize
    /\ \/ items \in Items /\ total \in Edge /\ records = <<>>
       \/ records \in Records /\ items = <<>> /\ total = 0
    /\ wire = None
    /\ NoBookArgs
    /\ NoDatabase
    /\ NothingYet

\* The Pages a caller can hold to put in a Book: those Page::new returns.
SomePages ==
    {unwrap(r.val) :
        r \in {q \in {Page_new(i, p, s, t, FALSE) :
                        i \in SeqsUpTo({1}, MaxSheetN),
                        p \in 0..MaxSheetN, s \in 0..MaxSheetN, t \in 0..MaxSheetN} :
                  is_ok(q.res)}}

NoPageArgs ==
    /\ items = <<>> /\ page = 0 /\ size = 0 /\ total = 0
    /\ wire = None

\* The caller is about to put Pages of its own choice in a Book.
InitSheets ==
    /\ given \in SeqsUpTo(SomePages, MaxSheets)
    /\ bwire = None
    /\ records = <<>>
    /\ NoPageArgs

\* The encoded Books drawn: valid Pages encoded, and then next_page overwritten
\* in one sheet (at > 0), in every sheet (at = 0) or in none, with null or with
\* an index past the last sheet.
Keep == [t |-> "keep", n |-> 0, a |-> <<>>]
Overwrites == {Keep, JNull, JNum(MaxSheets)}

BookPayloads ==
    {[sheets |-> [k \in 1..Len(ss) |->
                    IF (at = 0 \/ at = k) /\ j # Keep
                    THEN [Page_serialize(ss[k]) EXCEPT !.next_page = j]
                    ELSE Page_serialize(ss[k])]] :
        ss \in SeqsUpTo(SomePages, MaxSheets), at \in 0..MaxSheets,
        j \in Overwrites}

\* The caller received an encoded Book from outside.
InitBookWire ==
    /\ bwire \in {Some(w) : w \in BookPayloads}
    /\ given = <<>>
    /\ records = <<>>
    /\ NoPageArgs

\* The caller is about to bind a record collection into a Book.
InitBookRecords ==
    /\ records \in Records
    /\ size \in Small
    /\ items = <<>> /\ page = 0 /\ total = 0
    /\ wire = None
    /\ NoBookArgs

InitBook ==
    (InitSheets \/ InitBookWire \/ InitBookRecords) /\ NoDatabase /\ NothingYet

\* The tables drawn: rows that decode to 1 or 2 and a row that does not
\* decode, and the table whose rows decode to 1..10.
Rows == {NewRow(1, TRUE), NewRow(2, TRUE), NewRow(3, FALSE)}
FixtureTable == [k \in 1..FixtureLen |-> NewRow(k, TRUE)]
Tables == SeqsUpTo(Rows, MaxRows) \cup {FixtureTable}

\* The caller is about to paginate a query.
InitSqlx ==
    /\ table \in Tables
    /\ page \in 0..(MaxN + 1) /\ size \in Small
    /\ pc = "start"
    /\ items = <<>> /\ total = 0 /\ records = <<>>
    /\ wire = None
    /\ NoBookArgs
    /\ NothingYet

\* The caller is about to paginate a query several times: one of the first
\* two pages, of one or two rows each.
InitSqlxCalls ==
    /\ table \in SeqsUpTo(Rows, MaxRows)
    /\ page \in 0..1 /\ size \in 1..2
    /\ pc = "start"
    /\ items = <<>> /\ total = 0 /\ records = <<>>
    /\ wire = None
    /\ NoBookArgs
    /\ NothingYet

----------------------------------------------------------------------------
(* Next-state relation *)

\* A call on the arguments drawn initially; nothing has been called yet.
Fresh == op = "init" /\ wire = None /\ bwire = None

PageNew ==
    /\ Fresh
    /\ \E oc \in BOOLEAN :
         LET r == Page_new(items, page, size, total, oc)
         IN  /\ res' = r.res
             /\ pg' = r.val
    /\ op' = "Page::new"
    /\ UNCHANGED <<items, page, size, total, records, wire, copy, book>>
    /\ UNCHANGED <<bookVars, sqlVars>>

PageDefault ==
    /\ Fresh
    /\ pg' = Some(Page_default)
    /\ op' = "Page::default"
    /\ UNCHANGED <<items, page, size, total, records, wire, copy, book, res>>
    /\ UNCHANGED <<bookVars, sqlVars>>

PaginateRecords ==
    /\ Fresh
    /\ \E oc \in BOOLEAN :
         LET r == paginate_records(records, page, size, oc)
         IN  /\ res' = r.res
             /\ pg' = r.val
    /\ op' = "paginate_records"
    /\ UNCHANGED <<items, page, size, total, records, wire, copy, book>>
    /\ UNCHANGED <<bookVars, sqlVars>>

BindRecords ==
    /\ Fresh
    /\ \E oc \in BOOLEAN :
         LET r == bind_records(records, size, oc)
         IN  /\ res' = r.res
             /\ book' = r.val
    /\ op' = "bind_records"
    /\ UNCHANGED <<items, page, size, total, records, wire, pg, copy>>
    /\ UNCHANGED <<bookVars, sqlVars>>

PageClone ==
    /\ is_some(pg)
    /\ op \in {"Page::new", "Page::default", "paginate_records"}
    /\ copy' = Some(Page_clone(unwrap(pg)))
    /\ op' = "clone"
    /\ UNCHANGED <<items, page, size, total, records, wire, pg, book, res>>
    /\ UNCHANGED <<bookVars, sqlVars>>

PageSerialize ==
    /\ is_some(pg)
    /\ op \in {"Page::new", "Page::default", "paginate_records", "clone"}
    /\ wire' = Some(Page_serialize(unwrap(pg)))
    /\ copy' = None
    /\ op' = "serialize"
    /\ UNCHANGED <<items, page, size, total, records, pg, book, res>>
    /\ UNCHANGED <<bookVars, sqlVars>>

PageDeserialize ==
    /\ is_some(wire)
    /\ op \in {"init", "serialize"}
    /\ \E oc \in BOOLEAN :
         LET r == Page_deserialize(unwrap(wire), oc)
         IN  /\ res' = r.res
             /\ copy' = r.val
    /\ op' = "deserialize"
    /\ UNCHANGED <<items, page, size, total, records, wire, pg, book>>
    /\ UNCHANGED <<bookVars, sqlVars>>

BookNew ==
    /\ Fresh
    /\ book' = Some(Book_new(given))
    /\ op' = "Book::new"
    /\ UNCHANGED <<items, page, size, total, records, wire, pg, copy, res>>
    /\ UNCHANGED <<bookVars, sqlVars>>

BookDefault ==
    /\ Fresh
    /\ book' = Some(Book_default)
    /\ op' = "Book::default"
    /\ UNCHANGED <<items, page, size, total, records, wire, pg, copy, res>>
    /\ UNCHANGED <<bookVars, sqlVars>>

BookSerialize ==
    /\ is_some(book)
    /\ op \in {"Book::new", "Book::default", "bind_records"}
    /\ bwire' = Some(Book_serialize(unwrap(book)))
    /\ op' = "Book::serialize"
    /\ UNCHANGED <<items, page, size, total, records, wire, pg, copy, book, res>>
    /\ UNCHANGED <<given, bcopy>>
    /\ UNCHANGED sqlVars

BookDeserialize ==
    /\ is_some(bwire)
    /\ op \in {"init", "Book::serialize"}
    /\ \E oc \in BOOLEAN :
         LET r == Book_deserialize(unwrap(bwire), oc)
         IN  /\ res' = r.res
             /\ bcopy' = r.val
    /\ op' = "Book::deserialize"
    /\ UNCHANGED <<items, page, size, total, records, wire, pg, copy, book>>
    /\ UNCHANGED <<given, bwire>>
    /\ UNCHANGED sqlVars

\* paginate_rows, one step per await and per call.  A step that returns an
\* error or panics ends the call.
SqlxAcquire ==
    /\ pc = "start"
    /\ \E fails \in BOOLEAN :
         /\ res' = IF fails THEN Err(From_SqlxError(PoolTimedOut)) ELSE res
         /\ pc' = IF fails THEN "done" ELSE "acquired"
    /\ trace' = Append(trace, "acquire")
    /\ op' = "paginate"
    /\ UNCHANGED <<items, page, size, total, records, wire, pg, copy, book>>
    /\ UNCHANGED <<bookVars, table, sq_total, sq_rows, sq_items, modified, calls>>

\* Mutant: the count of an earlier call is kept and used instead of the query.
SqlxCount_cached ==
    /\ pc = "acquired"
    /\ IF calls # <<>> /\ is_some(calls[1].total)
       THEN /\ sq_total' = calls[1].total
            /\ pc' = "counted"
            /\ UNCHANGED <<res, trace>>
       ELSE /\ \E fails \in BOOLEAN :
                 LET r == get_total_rows(table, fails)
                 IN  /\ res' = IF is_ok(r.res) THEN res ELSE r.res
                     /\ pc' = IF is_ok(r.res) THEN "counted" ELSE "done"
                     /\ sq_total' = r.val
            /\ trace' = Append(trace, "count")
    /\ UNCHANGED <<items, page, size, total, records, wire, pg, copy, book, op>>
    /\ UNCHANGED <<bookVars, table, sq_rows, sq_items, modified, calls>>

\* Mutant: a failed count is taken as 0 and the call goes on.
SqlxCount_goes_on ==
    /\ pc = "acquired"
    /\ \E fails \in BOOLEAN :
         LET r == get_total_rows(table, fails)
         IN  /\ res' = IF is_ok(r.res) THEN res ELSE r.res
             /\ pc' = "counted"
             /\ sq_total' = IF is_ok(r.res) THEN r.val ELSE Some(0)
    /\ trace' = Append(trace, "count")
    /\ UNCHANGED <<items, page, size, total, records, wire, pg, copy, book, op>>
    /\ UNCHANGED <<bookVars, table, sq_rows, sq_items, modified, calls>>

SqlxCount ==
    /\ pc = "acquired"
    /\ \E fails \in BOOLEAN :
         LET r == get_total_rows(table, fails)
         IN  /\ res' = IF is_ok(r.res) THEN res ELSE r.res
             /\ pc' = IF is_ok(r.res) THEN "counted" ELSE "done"
             /\ sq_total' = r.val
    /\ trace' = Append(trace, "count")
    /\ UNCHANGED <<items, page, size, total, records, wire, pg, copy, book, op>>
    /\ UNCHANGED <<bookVars, table, sq_rows, sq_items, modified, calls>>

SqlxFetch ==
    /\ pc = "counted"
    /\ \E fails \in BOOLEAN, oc \in BOOLEAN :
         LET r == get_page_rows(table, page, size, fails, oc)
         IN  /\ res' = IF is_ok(r.res) THEN res ELSE r.res
             /\ pc' = IF is_ok(r.res) THEN "fetched" ELSE "done"
             /\ sq_rows' = r.val
    /\ trace' = Append(trace, "fetch")
    /\ UNCHANGED <<items, page, size, total, records, wire, pg, copy, book, op>>
    /\ UNCHANGED <<bookVars, table, sq_total, sq_items, modified, calls>>

SqlxParse ==
    /\ pc = "fetched"
    /\ LET r == parse_rows(unwrap(sq_rows))
       IN  /\ res' = IF is_ok(r.res) THEN res ELSE r.res
           /\ pc' = IF is_ok(r.res) THEN "parsed" ELSE "done"
           /\ sq_items' = r.val
    /\ trace' = Append(trace, "parse")
    /\ UNCHANGED <<items, page, size, total, records, wire, pg, copy, book, op>>
    /\ UNCHANGED <<bookVars, table, sq_total, sq_rows, modified, calls>>

SqlxPageNew ==
    /\ pc = "parsed"
    /\ \E oc \in BOOLEAN :
         LET r == Page_new(unwrap(sq_items), page, size, unwrap(sq_total), oc)
         IN  /\ res' = r.res
             /\ pg' = r.val
    /\ pc' = "done"
    /\ trace' = Append(trace, "Page::new")
    /\ UNCHANGED <<items, page, size, total, records, wire, copy, book, op>>
    /\ UNCHANGED <<bookVars, table, sq_total, sq_rows, sq_items, modified, calls>>

\* Another client of the database writes the table while paginate_rows holds
\* its connection and has a query still to run.
Writing == pc \in {"acquired", "counted"} /\ ~modified

DbInsert ==
    /\ Writing
    /\ Len(table) < MaxRows
    /\ \E r \in Rows, k \in 0..Len(table) :
         table' = SubSeq(table, 1, k) \o <<r>> \o SubSeq(table, k + 1, Len(table))
    /\ modified' = TRUE
    /\ UNCHANGED <<items, page, size, total, records, wire, pg, copy, book, res, op>>
    /\ UNCHANGED <<bookVars, pc, sq_total, sq_rows, sq_items, trace, calls>>

DbDelete ==
    /\ Writing
    /\ \E k \in 1..Len(table) :
         table' = SubSeq(table, 1, k - 1) \o SubSeq(table, k + 1, Len(table))
    /\ modified' = TRUE
    /\ UNCHANGED <<items, page, size, total, records, wire, pg, copy, book, res, op>>
    /\ UNCHANGED <<bookVars, pc, sq_total, sq_rows, sq_items, trace, calls>>

\* The caller calls paginate_rows again with the same arguments.  The locals
\* of the call that returned are gone; nothing of it is kept in the library.
SqlxCallAgain ==
    /\ pc = "done"
    /\ Len(calls) < MaxCalls - 1
    /\ calls' = Append(calls, [trace |-> trace, total |-> sq_total])
    /\ pc' = "start"
    /\ sq_total' = None /\ sq_rows' = None /\ sq_items' = None
    /\ modified' = FALSE /\ trace' = <<>>
    /\ res' = NoCall /\ pg' = None
    /\ UNCHANGED <<items, page, size, total, records, wire, copy, book, op>>
    /\ UNCHANGED <<bookVars, table>>

Next ==
    \/ PageNew
    \/ PageDefault
    \/ PaginateRecords
    \/ BindRecords
    \/ PageClone
    \/ PageSerialize
    \/ PageDeserialize

Spec == Init /\ [][Next]_vars

SpecMachine == InitMachine /\ [][Next]_vars

\* One caller of Book: Book::new, Book::default, bind_records, and the encoding.
NextBook ==
    \/ BookNew
    \/ BookDefault
    \/ BindRecords
    \/ BookSerialize
    \/ BookDeserialize

SpecBook == InitBook /\ [][NextBook]_vars

\* One call of paginate_rows, and the other clients of the database.
NextSqlx ==
    \/ SqlxAcquire
    \/ SqlxCount
    \/ SqlxFetch
    \/ SqlxParse
    \/ SqlxPageNew
    \/ DbInsert
    \/ DbDelete

SpecSqlx == InitSqlx /\ [][NextSqlx]_vars

\* Calls of paginate_rows one after the other on the shared table.
NextSqlxCalls ==
    \/ NextSqlx
    \/ SqlxCallAgain

SpecSqlxCalls == InitSqlxCalls /\ [][NextSqlxCalls]_vars

----------------------------------------------------------------------------
(* What the properties are stated with: the arithmetic of the specification, *)
(* written without the operators that model the code.                        *)

\* ceil(t / s) for s > 0: the least q with q * s >= t.
CeilDiv(t, s) == CHOOSE q \in 0..t : q * s >= t /\ \A r \in 0..t : r * s >= t => q <= r

\* Rule 1's value of pages.
ExpectedPages(s, t) ==
    IF s = 0 THEN 1 ELSE IF CeilDiv(t, s) >= 1 THEN CeilDiv(t, s) ELSE 1

Rule1(P) == P.pages = ExpectedPages(P.size, P.total)
Rule2(P) == P.page <= P.pages - 1
Rule3(P) == P.page < P.pages - 1 => Len(P.items) = P.size
Rule4(P) == P.page = P.pages - 1 => P.total = (P.pages - 1) * P.size + Len(P.items)
Rule5(P) == P.previous_page = IF P.page > 0 THEN Some(P.page - 1) ELSE None
Rule6(P) == P.next_page = IF P.page < P.pages - 1 THEN Some(P.page + 1) ELSE None

SixRules(P) == Rule1(P) /\ Rule2(P) /\ Rule3(P) /\ Rule4(P) /\ Rule5(P) /\ Rule6(P)

Sheets == IF is_some(book) THEN unwrap(book).sheets ELSE <<>>

\* Every Page value the caller holds.
ExistingPages ==
    {unwrap(o) : o \in {x \in {pg, copy} : is_some(x)}}
        \cup {Sheets[i] : i \in 1..Len(Sheets)}

\* The Pages Page::new or the decoder has just accepted.
AcceptedPages ==
    (IF op = "Page::new" /\ is_ok(res) THEN {unwrap(pg)} ELSE {})
        \cup (IF op = "deserialize" /\ is_ok(res) THEN {unwrap(copy)} ELSE {})

\* The error of the last call is an invariant violation raised by the field check.
IsInvalidValue == is_err(res) /\ unwrap(res.err).kind = "InvalidValue"
ErrDetail == unwrap(res.err).detail

\* The payload's fields as supplied.
Supplied ==
    LET w == unwrap(wire)
        opt(j) == IF j.t = "null" THEN None ELSE Some(j.n)
    IN  [items |-> [k \in 1..Len(w.items.a) |-> w.items.a[k].n],
         page |-> w.page.n, size |-> w.size.n, total |-> w.total.n,
         pages |-> w.pages.n,
         previous_page |-> opt(w.previous_page), next_page |-> opt(w.next_page)]

\* pages, previous_page and next_page as the other fields of the payload give them.
DerivedPages == ExpectedPages(Supplied.size, Supplied.total)
DerivedPrevious == IF Supplied.page > 0 THEN Some(Supplied.page - 1) ELSE None
DerivedNext == IF Supplied.page < DerivedPages - 1 THEN Some(Supplied.page + 1) ELSE None

Tampered ==
    \/ Supplied.pages # DerivedPages
    \/ Supplied.previous_page # DerivedPrevious
    \/ Supplied.next_page # DerivedNext

----------------------------------------------------------------------------
(* Properties *)

\* C1: every Page that exists (built by Page::new, Page::default or
\* paginate_records, cloned, decoded, or a sheet of bind_records' Book) satisfies
\* the six rules, and the field check run on it again returns Ok.
C1_EveryPageValid ==
    \A P \in ExistingPages :
        SixRules(P) /\ \A oc \in BOOLEAN : is_ok(verify_fields(P, oc))

\* An external payload of an intermediate page was decoded and accepted.
C1_Witness_Decoded ==
    /\ op = "deserialize" /\ pg = None /\ is_some(copy)
    /\ unwrap(copy).page = 1 /\ unwrap(copy).pages = 3

\* C2: for size > 0 a Page returned by Page::new has pages = ceil(total / size),
\* 1 when total = 0, and carries the arguments in page, size, total and items.
C2_PageNewPages ==
    (op = "Page::new" /\ is_ok(res) /\ size > 0) =>
        LET P == unwrap(pg)
        IN  /\ P.pages = (IF total = 0 THEN 1 ELSE CeilDiv(total, size))
            /\ P.page = page /\ P.size = size /\ P.total = total /\ P.items = items

C2_Witness_LastOfTwo ==
    /\ op = "Page::new" /\ is_ok(res)
    /\ size = 2 /\ total = 3 /\ page = 1 /\ unwrap(pg).pages = 2

\* C3: in every Page accepted by Page::new or by the decoder, previous_page is
\* present exactly when page > 0 and is then page - 1, and next_page is present
\* exactly when page < pages - 1 and is then page + 1.
C3_Neighbours ==
    \A P \in AcceptedPages :
        /\ is_some(P.previous_page) <=> P.page > 0
        /\ P.page > 0 => P.previous_page = Some(P.page - 1)
        /\ is_some(P.next_page) <=> P.page < P.pages - 1
        /\ P.page < P.pages - 1 => P.next_page = Some(P.page + 1)

C3_Witness_BothNeighbours ==
    /\ op = "deserialize" /\ is_ok(res) /\ pg = None
    /\ unwrap(copy).previous_page = Some(0) /\ unwrap(copy).next_page = Some(2)

C5_DecodeVerifies ==
    op = "deserialize" =>
        /\ Tampered =>
              /\ is_err(res) /\ copy = None
              /\ unwrap(res.err).kind = "serde::de::Error::custom"
              /\ ErrDetail[1] = "INVALID VALUE ERROR-"
        /\ is_ok(res) <=> SixRules(Supplied)
        /\ is_ok(res) => copy = Some(Supplied)
        /\ (SixRules([Supplied EXCEPT !.next_page = DerivedNext])
                /\ Supplied.next_page # DerivedNext) =>
              ErrDetail = <<"INVALID VALUE ERROR-",
                            "Next page index error: expected, found",
                            DerivedNext, Supplied.next_page>>

C5_Witness_TamperedNext ==
    /\ op = "deserialize" /\ pg = None /\ is_err(res)
    /\ Supplied.pages = DerivedPages
    /\ Supplied.previous_page = DerivedPrevious
    /\ Supplied.next_page = Some(2) /\ DerivedNext = Some(1)
    /\ ErrDetail[2] = "Next page index error: expected, found"

\* C6: a Page the caller built, once serialized and decoded, is accepted and
\* the decoded Page has the same items, page, size, total, pages, previous_page
\* and next_page.
C6_RoundTrip ==
    (op = "deserialize" /\ is_some(pg)) =>
        /\ is_ok(res)
        /\ is_some(copy)
        /\ \A f \in {"items", "page", "size", "total", "pages",
                     "previous_page", "next_page"} :
               unwrap(copy)[f] = unwrap(pg)[f]

\* The last of two pages, built by Page::new from one item, went round.
C6_Witness_WentRound ==
    /\ op = "deserialize" /\ is_some(pg) /\ is_ok(res)
    /\ items # <<>> /\ unwrap(pg).items = items
    /\ unwrap(pg).page = 1 /\ unwrap(pg).pages = 2

\* records[p * s .. min(p * s + s, Len(records))), in the order of records.
Window(recs, p, s) ==
    LET lo == p * s
        hi == IF p * s + s <= Len(recs) THEN p * s + s ELSE Len(recs)
    IN  [k \in 1..(hi - lo) |-> recs[lo + k]]

PagesOfRecords == ExpectedPages(size, Len(records))

\* C7: for size > 0 and page <= max(1, ceil(total / size)) - 1, paginate_records
\* returns Ok, with total the number of records and items the window
\* records[page * size .. min(page * size + size, total)) in the original order;
\* the records 1..10 with page 1 and size 3 give items 4, 5, 6, pages 4,
\* previous_page 0 and next_page 2.
C7_PaginateWindow ==
    (op = "paginate_records" /\ size > 0 /\ page <= PagesOfRecords - 1) =>
        /\ is_ok(res) /\ is_some(pg)
        /\ unwrap(pg).total = Len(records)
        /\ unwrap(pg).items = Window(records, page, size)
        /\ unwrap(pg).page = page /\ unwrap(pg).size = size
        /\ (records = Fixture /\ page = 1 /\ size = 3) =>
               pg = Some(NewPage(<<4, 5, 6>>, 1, 3, 10, 4, Some(0), Some(2)))

C7_Witness_Fixture ==
    /\ op = "paginate_records" /\ is_ok(res)
    /\ records = Fixture /\ page = 1 /\ size = 3

\* C8: for size > 0 and page > max(1, ceil(total / size)) - 1, paginate_records
\* returns the invariant violation of rule 2 (the page index exceeds the total
\* pages) and no Page.
C8_PaginateOutOfRange ==
    (op = "paginate_records" /\ size > 0 /\ page > PagesOfRecords - 1) =>
        /\ IsInvalidValue
        /\ ErrDetail = <<"Page index exceeds total pages", page, PagesOfRecords>>
        /\ pg = None

C8_Witness_PastTheEnd ==
    /\ op = "paginate_records" /\ Len(records) = 3 /\ size = 2 /\ page = 3
    /\ is_err(res)

\* C9: over the whole of usize, Page::new and paginate_records answer a page
\* beyond the valid range with an invariant violation and never abort.
C9_NeverAborts ==
    /\ (op = "Page::new" /\ page > ExpectedPages(size, total) - 1) => IsInvalidValue
    /\ (op = "paginate_records" /\ page > PagesOfRecords - 1) => IsInvalidValue

\* C10: for size > 0 the Book of bind_records has sheet i at page i, every sheet
\* with the given size, the record count as total and the same pages, as many
\* sheets as that pages, no previous_page on the first sheet, no next_page on the
\* last, and consecutive sheets pointing at each other.
C10_BookSheets ==
    (op = "bind_records" /\ size > 0) =>
        /\ is_ok(res) /\ is_some(book)
        /\ LET n == Len(Sheets)
           IN  /\ \A i \in 1..n :
                     /\ Sheets[i].page = i - 1
                     /\ Sheets[i].size = size
                     /\ Sheets[i].total = Len(records)
                     /\ Sheets[i].pages = n
               /\ n > 0 => Sheets[1].previous_page = None /\ Sheets[n].next_page = None
               /\ \A i \in 1..(n - 1) :
                     /\ Sheets[i].next_page = Some(i)
                     /\ Sheets[i + 1].previous_page = Some(i - 1)

C10_Witness_FourSheets ==
    /\ op = "bind_records" /\ records = Fixture /\ size = 3
    /\ Len(Sheets) = 4

\* The items of the sheets, one sheet after the other.
RECURSIVE Concat(_)
Concat(ss) == IF ss = <<>> THEN <<>> ELSE Head(ss).items \o Concat(Tail(ss))

RECURSIVE SumLen(_)
SumLen(ss) == IF ss = <<>> THEN 0 ELSE Len(Head(ss).items) + SumLen(Tail(ss))

\* C11: for size > 0 bind_records partitions the records: the sheets' items
\* concatenated in sheet order are the records, the item counts add up to the
\* total, and every sheet but the last holds exactly size items.
C11_Partition ==
    (op = "bind_records" /\ size > 0) =>
        /\ is_ok(res) /\ is_some(book)
        /\ Concat(Sheets) = records
        /\ SumLen(Sheets) = Len(records)
        /\ \A i \in 1..Len(Sheets) : Sheets[i].total = SumLen(Sheets)
        /\ \A i \in 1..(Len(Sheets) - 1) : Len(Sheets[i].items) = size

C11_Witness_UnevenSplit ==
    /\ op = "bind_records" /\ is_ok(res)
    /\ records = Fixture /\ size = 3
    /\ Len(Sheets) = 4 /\ Sheets[4].items = <<10>>

\* C12: with size 0 bind_records returns Ok and a Book of zero sheets whatever
\* the records are; no Page is built, so nothing can be rejected.
C12_SizeZeroEmptyBook ==
    (op = "bind_records" /\ size = 0) =>
        /\ res = Ok
        /\ book = Some([sheets |-> <<>>])

C12_Witness_RecordsIgnored ==
    /\ op = "bind_records" /\ size = 0 /\ records = Fixture
    /\ Sheets = <<>>

\* C13 as stated: bind_records of no records returns a Book of zero sheets for
\* every size, size > 0 included.
C13_EmptyRecordsNoSheets ==
    (op = "bind_records" /\ records = <<>> /\ is_ok(res)) => Len(Sheets) = 0

\* C13 amended: bind_records of no records returns Ok; the Book has zero sheets
\* for size 0 and, for size > 0, exactly one sheet, the empty Page 0 of 1 with
\* total 0.
C13_EmptyRecordsOneSheet ==
    (op = "bind_records" /\ records = <<>>) =>
        /\ res = Ok /\ is_some(book)
        /\ size = 0 => Sheets = <<>>
        /\ size > 0 => Sheets = <<NewPage(<<>>, 0, size, 0, 1, None, None)>>

C13_Witness_OneEmptySheet ==
    /\ op = "bind_records" /\ records = <<>> /\ size = 2
    /\ Len(Sheets) = 1 /\ Sheets[1].items = <<>>

\* A sheet of an encoded Book, field by field as supplied.
PayloadPage(w) ==
    LET opt(j) == IF j.t = "null" THEN None ELSE Some(j.n)
    IN  [items |-> [k \in 1..Len(w.items.a) |-> w.items.a[k].n],
         page |-> w.page.n, size |-> w.size.n, total |-> w.total.n,
         pages |-> w.pages.n,
         previous_page |-> opt(w.previous_page), next_page |-> opt(w.next_page)]

WireSheets == IF is_some(bwire) THEN unwrap(bwire).sheets ELSE <<>>
InvalidSheets == {k \in 1..Len(WireSheets) : ~SixRules(PayloadPage(WireSheets[k]))}
FirstInvalid == CHOOSE k \in InvalidSheets : \A j \in InvalidSheets : k <= j

DecodedSheets == IF is_some(bcopy) THEN unwrap(bcopy).sheets ELSE <<>>

\* C14: decoding a Book runs the Page field check on every sheet: when a sheet
\* of the payload breaks one of the six rules the decoding fails, with the error
\* the Page decoder gives for the first such sheet, and no Book is returned;
\* otherwise it returns the sheets as supplied; and the encoding of a Book
\* decodes to that Book.
C14_BookDecodeVerifies ==
    (op = "Book::deserialize") =>
        /\ InvalidSheets # {} =>
               /\ is_err(res) /\ bcopy = None
               /\ unwrap(res.err).kind = "serde::de::Error::custom"
               /\ Head(unwrap(res.err).detail) = "INVALID VALUE ERROR-"
               /\ \A oc \in BOOLEAN :
                     res = Page_deserialize(WireSheets[FirstInvalid], oc).res
        /\ InvalidSheets = {} =>
               /\ is_ok(res) /\ is_some(bcopy)
               /\ DecodedSheets = [k \in 1..Len(WireSheets) |-> PayloadPage(WireSheets[k])]
        /\ is_some(book) => is_ok(res) /\ bcopy = book

C14_Witness_LastSheetHasNext ==
    /\ op = "Book::deserialize" /\ is_err(res)
    /\ Len(WireSheets) = 2 /\ InvalidSheets = {2}
    /\ PayloadPage(WireSheets[2]).page = 1 /\ PayloadPage(WireSheets[2]).pages = 2
    /\ PayloadPage(WireSheets[2]).next_page = Some(MaxSheets)
    /\ unwrap(res.err).detail =
           <<"INVALID VALUE ERROR-", "Next page index error: expected, found",
             None, Some(MaxSheets)>>

\* The Book invariants: sheet i is page i, and all sheets carry the same total.
BookInvariants(ss) ==
    /\ \A i \in 1..Len(ss) : ss[i].page = i - 1
    /\ \A i, j \in 1..Len(ss) : ss[i].total = ss[j].total

\* Every Book value the caller holds.
ExistingBooks == {unwrap(o) : o \in {x \in {book, bcopy} : is_some(x)}}

\* C15 as stated: every Book, however obtained (Book::new, Book::default,
\* decoding, bind_records), has sheet i at page i and one total on all sheets.
C15_EveryBookOrdered == \A b \in ExistingBooks : BookInvariants(b.sheets)

\* C15 amended: the Books of bind_records and Book::default have sheet i at
\* page i and one total on all sheets; in every Book, however obtained, each
\* sheet satisfies the six Page rules, and that is all Book::new and the
\* decoding guarantee.
C15_BoundBooksOrdered ==
    /\ op \in {"bind_records", "Book::default"} =>
           \A b \in ExistingBooks : BookInvariants(b.sheets)
    /\ \A b \in ExistingBooks : \A i \in 1..Len(b.sheets) : SixRules(b.sheets[i])

C15_Witness_BoundThreeSheets ==
    /\ op = "bind_records" /\ is_ok(res)
    /\ Len(records) = 3 /\ size = 1 /\ Len(Sheets) = 3

C17_DefaultPage ==
    (op = "Page::default") =>
        /\ is_some(pg) /\ res = NoCall
        /\ unwrap(pg).items = <<>>
        /\ unwrap(pg).page = 0 /\ unwrap(pg).size = 0 /\ unwrap(pg).total = 0
        /\ unwrap(pg).pages = 1
        /\ unwrap(pg).previous_page = None /\ unwrap(pg).next_page = None
        /\ SixRules(unwrap(pg))
        /\ \A oc \in BOOLEAN : verify_fields(unwrap(pg), oc) = Ok

C17_Witness_DefaultBuilt ==
    /\ op = "Page::default" /\ is_some(pg) /\ unwrap(pg).pages = 1

AllRecords == [k \in 1..Len(table) |-> table[k].val]

ErrKind == unwrap(res.err).kind

\* The call ended on an error of the connection, of a query or of a row.
SqlxFailed == is_err(res) /\ ErrKind = "SQLx"

\* C19: when the table is not written during the call and no database or row
\* error ends it, paginate returns what paginate_records returns on the complete
\* ordered row list with the same page and size: the same Page on success, the
\* same invariant violation otherwise.  The table of the rows 1..10 with page 2
\* and size 3 gives the rows 7, 8, 9, total 10, pages 4, previous 1, next 3; with
\* page 4 and size 3 it gives 'Page index 4 exceeds total pages 4'.
C19_AgreesWithRecords ==
    (pc = "done" /\ ~modified /\ ~SqlxFailed) =>
        /\ \A oc \in BOOLEAN :
              LET r == paginate_records(AllRecords, page, size, oc)
              IN  res = r.res /\ pg = r.val
        /\ (table = FixtureTable /\ page = 2 /\ size = 3) =>
               pg = Some(NewPage(<<7, 8, 9>>, 2, 3, 10, 4, Some(1), Some(3)))
        /\ (table = FixtureTable /\ page = 4 /\ size = 3) =>
               /\ IsInvalidValue /\ pg = None
               /\ ErrDetail = <<"Page index exceeds total pages", 4, 4>>

C19_Witness_FixtureTable ==
    /\ pc = "done" /\ ~modified /\ is_ok(res)
    /\ table = FixtureTable /\ page = 2 /\ size = 3
    /\ unwrap(pg).items = <<7, 8, 9>>

\* The step on which the call ended.
FailedStep == trace[Len(trace)]

Inconsistent(P) ==
    \/ P.total # Len(table)
    \/ P.items # Window(AllRecords, P.page, P.size)
    \/ is_some(P.next_page) /\ Len(table) <= unwrap(P.next_page) * P.size

\* C21: the count and the fetch are two steps with no transaction around them.
\* A Page returned as Ok describes the table as it is unless the table was
\* written during the call; and with a write between the count and the fetch
\* there is a run in which paginate returns Ok with a Page whose total is not
\* the table's row count and whose next_page has no row at its offset.
C21_InconsistentOnlyWhenWritten ==
    (pc = "done" /\ is_ok(res) /\ Inconsistent(unwrap(pg))) => modified

C21_Witness_NextPastTheData ==
    /\ pc = "done" /\ is_ok(res) /\ modified
    /\ unwrap(pg).total = unwrap(sq_total)
    /\ unwrap(pg).total # Len(table)
    /\ unwrap(pg).next_page = Some(1)
    /\ Len(table) <= 1 * size

\* The candidate the field check is run on: the payload's fields when decoding,
\* the arguments with the derived pages, previous_page and next_page in Page::new.
Candidate ==
    IF op = "deserialize" THEN Supplied
    ELSE LET ps == ExpectedPages(size, total)
         IN  [items |-> items, page |-> page, size |-> size, total |-> total,
              pages |-> ps,
              previous_page |-> IF page > 0 THEN Some(page - 1) ELSE None,
              next_page |-> IF page < ps - 1 THEN Some(page + 1) ELSE None]

\* The rules a candidate violates, by number.
Violated(P) ==
    {n \in 1..6 : \/ n = 1 /\ ~Rule1(P)
                  \/ n = 2 /\ ~Rule2(P)
                  \/ n = 3 /\ ~Rule3(P)
                  \/ n = 4 /\ ~Rule4(P)
                  \/ n = 5 /\ ~Rule5(P)
                  \/ n = 6 /\ ~Rule6(P)}

Lowest(S) == CHOOSE n \in S : \A m \in S : n <= m

\* The rule an error message names.
RuleOf(msg) ==
    CASE msg = "Total pages error: expected, found" -> 1
      [] msg = "Page index exceeds total pages" -> 2
      [] msg = "Items length is not equal to page size for an intermediate page" -> 3
      [] msg = "Total elements error: expected, found" -> 4
      [] msg = "Previous page index error: expected, found" -> 5
      [] msg = "Next page index error: expected, found" -> 6
      [] OTHER -> 0

\* The rule the last call's error names; a decoding error carries the message
\* behind the "INVALID VALUE ERROR-" of Display.
RuleOfError == IF op = "deserialize" THEN RuleOf(ErrDetail[2]) ELSE RuleOf(ErrDetail[1])

\* C22: Page::new and the decoder report the lowest-numbered rule the candidate
\* violates, in the order 1 to 6, and return Ok when it violates none; items of
\* length 3 with page 0, size 2 and total 3 give the rule-3 error.
C22_LowestRuleFirst ==
    (op \in {"Page::new", "deserialize"}) =>
        /\ Violated(Candidate) = {} => is_ok(res)
        /\ Violated(Candidate) # {} =>
               is_err(res) /\ RuleOfError = Lowest(Violated(Candidate))
        /\ (op = "Page::new" /\ Len(items) = 3 /\ page = 0 /\ size = 2 /\ total = 3) =>
               is_err(res) /\ RuleOfError = 3

C22_Witness_SeveralRules ==
    /\ op = "deserialize" /\ is_err(res)
    /\ Violated(Candidate) = {3, 5, 6}
    /\ RuleOfError = 3

\* C23: bind_records returns Ok and a Book for every record sequence and every
\* size, 0 and the largest usize included, with or without overflow checks:
\* none of the Pages it builds is rejected.
C23_BindNeverFails ==
    (op = "bind_records") => res = Ok /\ is_some(book)

C23_Witness_HugeSize ==
    /\ op = "bind_records" /\ res = Ok
    /\ records = Fixture /\ size = UsizeMax
    /\ Len(Sheets) = 1 /\ Sheets[1].items = Fixture

\* C27: an error of Page::new names rule 2, rule 3 or rule 4, whatever the
\* arguments; the same holds of paginate_records and bind_records, which end in
\* Page::new.  Rules 1, 5 and 6 compare values Page::new has derived itself.
C27_PageNewErrors ==
    (op \in {"Page::new", "paginate_records", "bind_records"} /\ is_err(res)) =>
        /\ IsInvalidValue
        /\ RuleOf(ErrDetail[1]) \in {2, 3, 4}

C27_Witness_TotalErrorAtTheEdge ==
    /\ op = "Page::new" /\ is_err(res)
    /\ size = UsizeMax /\ total = UsizeMax
    /\ RuleOf(ErrDetail[1]) = 4

\* C28: with size 0 paginate_records returns Ok exactly when page is 0 and there
\* are no records; with records and page 0 it selects no item and returns the
\* rule-4 total error; with page > 0 it returns the rule-2 page-index error.
C28_PaginateSizeZero ==
    (op = "paginate_records" /\ size = 0) =>
        /\ is_ok(res) <=> (page = 0 /\ records = <<>>)
        /\ is_ok(res) => pg = Some(NewPage(<<>>, 0, 0, 0, 1, None, None))
        /\ (page = 0 /\ records # <<>>) =>
               /\ IsInvalidValue /\ pg = None
               /\ ErrDetail = <<"Total elements error: expected, found", 0, Len(records)>>
        /\ page > 0 =>
               /\ IsInvalidValue /\ pg = None
               /\ ErrDetail = <<"Page index exceeds total pages", page, 1>>

C28_Witness_RecordsLeftOut ==
    /\ op = "paginate_records" /\ size = 0 /\ page = 0
    /\ records = Fixture /\ is_err(res)
    /\ RuleOf(ErrDetail[1]) = 4

\* C29: a payload whose pages is 0 is rejected by rule 1, whatever its other
\* fields: the decoding returns the total-pages error and does not abort, so
\* pages - 1 is never computed on it.
C29_ZeroPagesRejectedFirst ==
    (op = "deserialize" /\ Supplied.pages = 0) =>
        /\ is_err(res) /\ res # Panic /\ copy = None
        /\ ErrDetail[2] = "Total pages error: expected, found"
        /\ ErrDetail[3] = ExpectedPages(Supplied.size, Supplied.total)
        /\ ErrDetail[4] = 0

C29_Witness_ZeroPages ==
    /\ op = "deserialize" /\ is_err(res)
    /\ Supplied.pages = 0 /\ Supplied.page = 0
    /\ Supplied.size = 2 /\ Supplied.total = 3
    /\ Len(Supplied.items) = 2 /\ Supplied.next_page = Some(1)
    /\ ErrDetail = <<"INVALID VALUE ERROR-", "Total pages error: expected, found", 2, 0>>

\* The steps of paginate_rows in the order of the source.
Steps == <<"acquire", "count", "fetch", "parse", "Page::new">>

\* C24: paginate makes its steps in the order acquire, count, fetch, decode,
\* Page::new, and a step that fails ends the call with its error: after a
\* failed acquire or count no fetch is issued, after a failed fetch or decode
\* Page::new is not invoked, and Ok is returned only after all five steps.
C24_StepsInOrder ==
    /\ trace = SubSeq(Steps, 1, Len(trace))
    /\ (is_err(res) \/ res = Panic) => pc = "done"
    /\ is_ok(res) => pc = "done" /\ trace = Steps
    /\ (pc = "done" /\ ~is_ok(res)) =>
           /\ pg = None
           /\ sq_total = None => sq_rows = None /\ Len(trace) <= 2
           /\ sq_rows = None => sq_items = None /\ Len(trace) <= 3
           /\ sq_items = None => Len(trace) <= 4

C24_Witness_CountFailed ==
    /\ pc = "done" /\ SqlxFailed
    /\ trace = <<"acquire", "count">>
    /\ sq_rows = None /\ pg = None
    /\ table # <<>>

\* The Page that Page::new is asked for: the items decoded from the fetched
\* rows, the counted total, and the rest derived.
Assembled ==
    LET ps == ExpectedPages(size, unwrap(sq_total))
    IN  [items |-> unwrap(sq_items), page |-> page, size |-> size,
         total |-> unwrap(sq_total), pages |-> ps,
         previous_page |-> IF page > 0 THEN Some(page - 1) ELSE None,
         next_page |-> IF page < ps - 1 THEN Some(page + 1) ELSE None]

Occurrences(t, step) == Cardinality({i \in 1..Len(t) : t[i] = step})

\* The steps of every call so far: the calls that returned and the running one.
AllTraces == {calls[i].trace : i \in 1..Len(calls)} \cup {trace}

\* C25: each call of the relational paginate issues the count query at most
\* once and the fetch query at most once, and exactly one of each when it
\* returns Ok; a query that failed is the last step of its call (it is not run
\* again); and no count is kept between calls: a call holds a total only after
\* its own count query, and that total is the row count of the table as the
\* query found it.
C25_OneCountOneFetch ==
    /\ \A t \in AllTraces :
         /\ Occurrences(t, "count") <= 1
         /\ Occurrences(t, "fetch") <= 1
    /\ (pc = "done" /\ is_ok(res)) =>
         /\ Occurrences(trace, "count") = 1
         /\ Occurrences(trace, "fetch") = 1
    /\ (pc = "done" /\ SqlxFailed) =>
         /\ FailedStep \in {"acquire", "count", "fetch", "parse"}
         /\ Occurrences(trace, FailedStep) = 1
    /\ is_some(sq_total) => Occurrences(trace, "count") = 1
    /\ \A i \in 1..Len(calls) :
         is_some(calls[i].total) => Occurrences(calls[i].trace, "count") = 1
    /\ (pc = "counted" /\ ~modified) => sq_total = Some(Wrap(Len(table)))

\* A second call returned Ok with another total than the first call counted.
C25_Witness_SecondCallCountsAgain ==
    /\ Len(calls) = 1
    /\ is_some(calls[1].total)
    /\ pc = "done" /\ is_ok(res)
    /\ is_some(sq_total) /\ sq_total # calls[1].total
    /\ Occurrences(trace, "count") = 1

====
